---- MODULE Spec2Model ----
(***************************************************************************)
(* Model of SepoliaFaucetBot (src/bot.py): the run_bot cycle loop, the     *)
(* faucet client, the two balance pollers and transfer_funds.              *)
(*                                                                         *)
(* The program is single-threaded; pc is the position of that thread, one  *)
(* label per blocking call.  The chain (balance of the temporary address,  *)
(* the transaction waiting in the mempool) and the operator (Ctrl-C) are    *)
(* the environment; the gas price is whatever the node answers when asked. *)
(*                                                                         *)
(* Amounts are integers in wei.  get_balance returns float(from_wei(wei)); *)
(* the program only compares such readings with each other (>, <=), and    *)
(* the conversion is strictly increasing on the balances of this model, so *)
(* a reading is represented by the number of wei it stands for.            *)
(*                                                                         *)
(* src/bot.py lines 159-203 (the body of transfer_funds) are indented one  *)
(* level too little in the published file; they are read here as the body  *)
(* of transfer_funds, which is what every caller relies on.                *)
(***************************************************************************)
EXTENDS Integers, FiniteSets, Sequences, TLC

VARIABLES
    pc,                \* position of the single thread of control
    run_state,         \* "running", "stopped" (break at line 339), "crashed"
    interrupted,       \* environment: the operator has pressed Ctrl-C
    cycle,             \* run_bot: cycle
    temp_address,      \* run_bot: temp_address
    temp_private_key,  \* run_bot: temp_private_key
    reuse,             \* run_bot: reuse
    initial_balance,   \* run_bot: initial_balance
    success,           \* run_bot: success
    response_content,  \* run_bot: response_content, as the set of marker
                       \* substrings the body contains
    attempt,           \* change_tor_identity: attempt while the for loop
                       \* runs (0 outside it)
    check_pass,        \* which check_balance_and_transfer call of the
                       \* RATE_LIMIT branch is active (0: none, 1: line 298,
                       \* 2: line 302)
    i,                 \* check_balance_and_transfer: i while the for loop
                       \* runs (0 outside it, where it is not read)
    current_balance,   \* pollers: current_balance
    gas_price,         \* transfer_funds: gas_price
    balance_wei,       \* transfer_funds: balance_wei
    send_amount_wei,   \* transfer_funds: send_amount_wei
    transaction,       \* transfer_funds: transaction
    tf_exit,           \* transfer_funds: the place the last call returned
                       \* False from ("none" before the first such return)
    tor_changed,       \* request_faucet_funds: what change_tor_identity
                       \* returned (read at line 74 only)
    polled,            \* wait_for_funds_and_transfer: the loop body ran once
    generated,         \* environment: keys drawn from os.urandom so far
    faucet_asked,      \* environment: the faucet has seen temp_address
    chainBal,          \* environment: wei held by temp_address
    pendingTx,         \* environment: sweep broadcast and not yet mined
    deposits           \* environment: deposits made to temp_address

vars == <<pc, run_state, interrupted, cycle, temp_address, temp_private_key,
          reuse, initial_balance, success, response_content, attempt,
          check_pass, i, current_balance, gas_price, balance_wei,
          send_amount_wei, transaction, tf_exit, tor_changed, polled,
          generated, faucet_asked, chainBal, pendingTx, deposits>>

ctl == <<run_state, interrupted>>
orch == <<cycle, temp_address, temp_private_key, reuse, initial_balance>>
resp == <<success, response_content>>
pollv == <<check_pass, i, current_balance, polled>>
tfv == <<gas_price, balance_wei, send_amount_wei, transaction, tf_exit>>
chain == <<chainBal, pendingTx, deposits>>

(***************************************************************************)
(* Bounds of the model.                                                    *)
(***************************************************************************)
MaxCycle == 2
MaxMarkers == 2
MaxGasPrice == 2
MaxDeposits == 2

(***************************************************************************)
(* Program constants.                                                      *)
(***************************************************************************)
gas_limit == 21000
max_attempts == 3
check_attempts == 10

\* Python's None, in the shape of a key or an address.
None == <<"None", 0>>
NoTx == [value |-> 0, gasPrice |-> 0]

(***************************************************************************)
(* The marker substrings a faucet response body is searched for, and the   *)
(* bodies of the model: a body is the set of markers it contains.          *)
(***************************************************************************)
Markers ==
    {"MAX_RETRIES_EXCEEDED", "TRANSACTION_REPLACED", "REPLACEMENT_UNDERPRICED",
     "RATE_LIMIT", "Temporarily forbidden due to suspicious requests",
     "ACCESS_RESTRICTED", "TIMEOUT", "CONNECTION_RESET",
     "Max retries exceeded with url"}

Bodies == {b \in SUBSET Markers : Cardinality(b) <= MaxMarkers}

\* Bodies of a 200 answer: run_bot never reads them (line 267), so two stand
\* for all, one of them with a marker in it.
OkBodies == {{}, {"RATE_LIMIT"}}

\* The texts request_faucet_funds looks for in str(e) of a ConnectionError.
ConnErrPhrases == {"Connection reset by peer", "Max retries exceeded with url"}

\* request_faucet_funds, except ConnectionError: the bytes returned for an
\* error whose message contains the phrases m.
ConnectionErrorContent(m) ==
    IF "Connection reset by peer" \in m THEN {"CONNECTION_RESET"}
    ELSE IF "Max retries exceeded with url" \in m THEN {"MAX_RETRIES_EXCEEDED"}
    ELSE {}

\* Everything request_faucet_funds can return; reached: the request got to
\* the faucet.
FaucetResults ==
    {[success |-> TRUE, content |-> b, reached |-> TRUE] : b \in OkBodies}
    \cup {[success |-> FALSE, content |-> b, reached |-> TRUE] : b \in Bodies}
    \cup {[success |-> FALSE, content |-> {"TIMEOUT"}, reached |-> TRUE]}
    \cup {[success |-> FALSE, content |-> ConnectionErrorContent(m),
           reached |-> FALSE] : m \in SUBSET ConnErrPhrases}
    \cup {[success |-> FALSE, content |-> {}, reached |-> FALSE]}

\* Outcome with the first test of the chain looking in the body for the text
\* of the connection error instead of the code MAX_RETRIES_EXCEEDED.
OutcomeUrlPhrase(s, c) ==
    IF s THEN "Success"
    ELSE IF "Max retries exceeded with url" \in c THEN "MaxRetriesExceeded"
    ELSE IF "TRANSACTION_REPLACED" \in c THEN "TransactionReplaced"
    ELSE IF "REPLACEMENT_UNDERPRICED" \in c THEN "ReplacementUnderpriced"
    ELSE IF "RATE_LIMIT" \in c THEN "RateLimited"
    ELSE IF "Temporarily forbidden due to suspicious requests" \in c
         THEN "TemporarilyForbidden"
    ELSE IF "ACCESS_RESTRICTED" \in c THEN "AccessRestricted"
    ELSE IF "TIMEOUT" \in c THEN "Timeout"
    ELSE IF "CONNECTION_RESET" \in c THEN "ConnectionReset"
    ELSE "UnknownFailure"

\* Outcome with the test of line 311 moved before the test of line 296.
OutcomeForbiddenFirst(s, c) ==
    IF s THEN "Success"
    ELSE IF "MAX_RETRIES_EXCEEDED" \in c THEN "MaxRetriesExceeded"
    ELSE IF "TRANSACTION_REPLACED" \in c THEN "TransactionReplaced"
    ELSE IF "REPLACEMENT_UNDERPRICED" \in c THEN "ReplacementUnderpriced"
    ELSE IF "Temporarily forbidden due to suspicious requests" \in c
         THEN "TemporarilyForbidden"
    ELSE IF "RATE_LIMIT" \in c THEN "RateLimited"
    ELSE IF "ACCESS_RESTRICTED" \in c THEN "AccessRestricted"
    ELSE IF "TIMEOUT" \in c THEN "Timeout"
    ELSE IF "CONNECTION_RESET" \in c THEN "ConnectionReset"
    ELSE "UnknownFailure"

\* run_bot's if/elif chain over (success, response_content), in its order.
Outcome(s, c) ==
    IF s THEN "Success"
    ELSE IF "MAX_RETRIES_EXCEEDED" \in c THEN "MaxRetriesExceeded"
    ELSE IF "TRANSACTION_REPLACED" \in c THEN "TransactionReplaced"
    ELSE IF "REPLACEMENT_UNDERPRICED" \in c THEN "ReplacementUnderpriced"
    ELSE IF "RATE_LIMIT" \in c THEN "RateLimited"
    ELSE IF "Temporarily forbidden due to suspicious requests" \in c
         THEN "TemporarilyForbidden"
    ELSE IF "ACCESS_RESTRICTED" \in c THEN "AccessRestricted"
    ELSE IF "TIMEOUT" \in c THEN "Timeout"
    ELSE IF "CONNECTION_RESET" \in c THEN "ConnectionReset"
    ELSE "UnknownFailure"

ReuseOutcomes ==
    {"MaxRetriesExceeded", "TransactionReplaced", "ReplacementUnderpriced",
     "TemporarilyForbidden"}
RetrySameOutcomes == {"AccessRestricted", "Timeout", "ConnectionReset"}

\* generate_random_account: the address is derived from the key; distinct
\* keys give distinct addresses.
AddressOf(key) == <<"address", key[2]>>
\* os.urandom(32).hex(): the n-th key drawn; a draw never repeats an earlier
\* one.
KeyOf(n) == <<"key", n>>

\* get_balance(temp_address): the balance, or 0 when the RPC call raises.
GetBalance == {chainBal, 0}

\* What w3.eth.gas_price can answer, in wei per unit of gas.
GasPrices == 1 .. MaxGasPrice
\* What arrives at the temporary address in one deposit: dust, or an amount
\* equal to the fee of a transfer at the lowest gas price.
Drips == {1, gas_limit}

Fee(price) == gas_limit * price

Running == run_state = "running"

Init ==
    /\ pc = "cycle_start"
    /\ run_state = "running"
    /\ interrupted = FALSE
    /\ cycle = 1
    /\ temp_address = None
    /\ temp_private_key = None
    /\ reuse = FALSE
    /\ initial_balance = 0
    /\ success = FALSE
    /\ response_content = {}
    /\ attempt = 0
    /\ check_pass = 0
    /\ i = 0
    /\ current_balance = 0
    /\ gas_price = 0
    /\ balance_wei = 0
    /\ send_amount_wei = 0
    /\ transaction = NoTx
    /\ tf_exit = "none"
    /\ tor_changed = FALSE
    /\ polled = FALSE
    /\ generated = 0
    /\ faucet_asked = FALSE
    /\ chainBal = 0
    /\ pendingTx = NoTx
    /\ deposits = 0

(***************************************************************************)
(* Return of a poller to run_bot.  check_pass = 0: the call at line 268    *)
(* (wait_for_funds_and_transfer); 1 and 2: the calls at lines 298 and 302  *)
(* (check_balance_and_transfer).  The locals of the poller and of          *)
(* transfer_funds end with the call.                                       *)
(***************************************************************************)
ResetLocals ==
    /\ i' = 0
    /\ current_balance' = 0
    /\ polled' = FALSE
    /\ gas_price' = 0
    /\ balance_wei' = 0
    /\ send_amount_wei' = 0
    /\ transaction' = NoTx
    /\ tf_exit' = "none"

\* PollerReturn with the failure of wait_for_funds_and_transfer ending the
\* cycle (a break where line 276 has continue).
PollerReturnBreaks(result) ==
    /\ ResetLocals
    /\ IF check_pass = 0
       THEN /\ check_pass' = 0
            /\ cycle' = cycle + 1
            /\ pc' = "cycle_start"
       ELSE IF check_pass = 1 /\ result
       THEN /\ check_pass' = 1
            /\ cycle' = cycle
            /\ pc' = "rebaseline"
       ELSE /\ check_pass' = 0
            /\ cycle' = cycle + 1
            /\ pc' = "cycle_start"

\* PollerReturn with the second check_balance_and_transfer (line 302) moved
\* out of the if of line 298: it runs whatever the first returned.
PollerReturnSecondPassAlways(result) ==
    /\ ResetLocals
    /\ IF check_pass = 0
       THEN /\ check_pass' = 0
            /\ IF result
               THEN cycle' = cycle + 1 /\ pc' = "cycle_start"
               ELSE cycle' = cycle /\ pc' = "request_faucet"
       ELSE IF check_pass = 1
       THEN /\ check_pass' = 1
            /\ cycle' = cycle
            /\ pc' = "rebaseline"
       ELSE /\ check_pass' = 0
            /\ cycle' = cycle + 1
            /\ pc' = "cycle_start"

PollerReturn(result) ==
    /\ ResetLocals
    /\ IF check_pass = 0
       THEN /\ check_pass' = 0
            /\ IF result
               THEN cycle' = cycle + 1 /\ pc' = "cycle_start"
               ELSE cycle' = cycle /\ pc' = "request_faucet"
       ELSE IF check_pass = 1 /\ result
       THEN /\ check_pass' = 1
            /\ cycle' = cycle
            /\ pc' = "rebaseline"
       ELSE /\ check_pass' = 0
            /\ cycle' = cycle + 1
            /\ pc' = "cycle_start"

(***************************************************************************)
(* run_bot, lines 247-263.                                                 *)
(***************************************************************************)
\* StartCycle without line 257: the flag of a reuse stays set through the
\* cycle that keeps the account.
StartCycleKeepsFlag ==
    /\ Running /\ pc = "cycle_start" /\ cycle <= MaxCycle
    /\ IF ~reuse
       THEN /\ generated' = generated + 1
            /\ temp_private_key' = KeyOf(generated + 1)
            /\ temp_address' = AddressOf(KeyOf(generated + 1))
            /\ faucet_asked' = FALSE
            /\ chainBal' = 0
            /\ pendingTx' = NoTx
            /\ deposits' = 0
       ELSE UNCHANGED <<generated, temp_private_key, temp_address,
                        faucet_asked, chainBal, pendingTx, deposits>>
    /\ reuse' = reuse
    /\ pc' = "read_initial"
    /\ UNCHANGED <<ctl, cycle, initial_balance, resp, attempt,
                   tor_changed, pollv, tfv>>

\* StartCycle with line 262 under the else of line 251: a kept account goes
\* to the faucet request with the baseline it had.
StartCycleKeepsBaseline ==
    /\ Running /\ pc = "cycle_start" /\ cycle <= MaxCycle
    /\ IF ~reuse
       THEN /\ generated' = generated + 1
            /\ temp_private_key' = KeyOf(generated + 1)
            /\ temp_address' = AddressOf(KeyOf(generated + 1))
            /\ reuse' = reuse
            /\ faucet_asked' = FALSE
            /\ chainBal' = 0
            /\ pendingTx' = NoTx
            /\ deposits' = 0
            /\ pc' = "read_initial"
       ELSE /\ reuse' = FALSE
            /\ pc' = "request_faucet"
            /\ UNCHANGED <<generated, temp_private_key, temp_address,
                           faucet_asked, chainBal, pendingTx, deposits>>
    /\ UNCHANGED <<ctl, cycle, initial_balance, resp, attempt,
                   tor_changed, pollv, tfv>>

\* Lines 251-257: a new account, or the one kept by reuse.  The chain
\* variables follow temp_address: a new address holds nothing.
StartCycle ==
    /\ Running /\ pc = "cycle_start" /\ cycle <= MaxCycle
    /\ IF ~reuse
       THEN /\ generated' = generated + 1
            /\ temp_private_key' = KeyOf(generated + 1)
            /\ temp_address' = AddressOf(KeyOf(generated + 1))
            /\ reuse' = reuse
            /\ faucet_asked' = FALSE
            /\ chainBal' = 0
            /\ pendingTx' = NoTx
            /\ deposits' = 0
       ELSE /\ reuse' = FALSE
            /\ UNCHANGED <<generated, temp_private_key, temp_address,
                           faucet_asked, chainBal, pendingTx, deposits>>
    /\ pc' = "read_initial"
    /\ UNCHANGED <<ctl, cycle, initial_balance, resp, attempt,
                   tor_changed, pollv, tfv>>

\* Line 252 raising (Account.from_key rejects a key outside the curve's
\* range): caught at line 340.
GenerateRaises ==
    /\ Running /\ pc = "cycle_start" /\ cycle <= MaxCycle /\ ~reuse
    /\ pc' = "handler"
    /\ UNCHANGED <<ctl, orch, resp, attempt, tor_changed, pollv, tfv,
                   generated, faucet_asked, chain>>

\* HandleException with a break after the log: the loop ends.
HandleExceptionExits ==
    /\ Running /\ pc = "handler"
    /\ run_state' = "stopped"
    /\ UNCHANGED <<pc, interrupted, orch, resp, attempt, tor_changed, pollv,
                   tfv, generated, faucet_asked, chain>>

\* Lines 340-343: log, sleep, next iteration of the while loop.
HandleException ==
    /\ Running /\ pc = "handler"
    /\ pc' = "cycle_start"
    /\ UNCHANGED <<ctl, orch, resp, attempt, tor_changed, pollv, tfv,
                   generated, faucet_asked, chain>>

\* Line 262.
ReadInitialBalance ==
    /\ Running /\ pc = "read_initial"
    /\ \E b \in GetBalance : initial_balance' = b
    /\ pc' = "request_faucet"
    /\ UNCHANGED <<ctl, cycle, temp_address, temp_private_key, reuse,
                   resp, attempt, tor_changed, pollv, tfv, generated,
                   faucet_asked, chain>>

(***************************************************************************)
(* request_faucet_funds, lines 70-126, with change_tor_identity, 51-68.    *)
(***************************************************************************)
\* ChangeTorIdentity with request_faucet_funds giving up when the identity
\* could not be changed: it returns (False, b"") and no request is posted.
ChangeTorIdentityAborts ==
    /\ Running /\ pc = "request_faucet"
    /\ \E ok \in BOOLEAN :
         IF ok
         THEN /\ attempt' = 0 /\ tor_changed' = TRUE /\ pc' = "post"
              /\ UNCHANGED resp
         ELSE IF attempt < max_attempts - 1
         THEN /\ attempt' = attempt + 1 /\ tor_changed' = FALSE /\ pc' = pc
              /\ UNCHANGED resp
         ELSE /\ attempt' = 0 /\ tor_changed' = FALSE /\ pc' = "dispatch"
              /\ success' = FALSE /\ response_content' = {}
    /\ UNCHANGED <<ctl, orch, pollv, tfv, generated, faucet_asked, chain>>

\* ChangeTorIdentity with the loop bound off by one: a fourth attempt is
\* made after three failures.
ChangeTorIdentityFourth ==
    /\ Running /\ pc = "request_faucet"
    /\ \E ok \in BOOLEAN :
         IF ok
         THEN attempt' = 0 /\ tor_changed' = TRUE /\ pc' = "post"
         ELSE IF attempt < max_attempts
         THEN attempt' = attempt + 1 /\ tor_changed' = FALSE /\ pc' = pc
         ELSE attempt' = 0 /\ tor_changed' = FALSE /\ pc' = "post"
    /\ UNCHANGED <<ctl, orch, resp, pollv, tfv, generated, faucet_asked,
                   chain>>

\* One pass of the for loop of change_tor_identity.
ChangeTorIdentity ==
    /\ Running /\ pc = "request_faucet"
    /\ \E ok \in BOOLEAN :
         IF ok
         THEN attempt' = 0 /\ tor_changed' = TRUE /\ pc' = "post"
         ELSE IF attempt < max_attempts - 1
         THEN attempt' = attempt + 1 /\ tor_changed' = FALSE /\ pc' = pc
         ELSE attempt' = 0 /\ tor_changed' = FALSE /\ pc' = "post"
    /\ UNCHANGED <<ctl, orch, resp, pollv, tfv, generated, faucet_asked,
                   chain>>

\* Lines 100-126: the POST and what is returned for it.
PostFaucet ==
    /\ Running /\ pc = "post"
    /\ \E r \in FaucetResults :
         /\ success' = r.success
         /\ response_content' = r.content
         /\ faucet_asked' = (faucet_asked \/ r.reached)
    /\ tor_changed' = FALSE
    /\ pc' = "dispatch"
    /\ UNCHANGED <<ctl, orch, attempt, pollv, tfv, generated, chain>>

(***************************************************************************)
(* run_bot, lines 267-333: the branch taken for the faucet's answer.       *)
(***************************************************************************)
\* Lines 267-268: success, enter wait_for_funds_and_transfer.
OnSuccess ==
    /\ Running /\ pc = "dispatch"
    /\ Outcome(success, response_content) = "Success"
    /\ pc' = "wf_poll"
    /\ check_pass' = 0
    /\ polled' = FALSE
    /\ UNCHANGED <<ctl, orch, resp, attempt, tor_changed, i,
                   current_balance, tfv, generated, faucet_asked, chain>>

\* OnReuseOutcome without line 280 (reuse = True).
OnReuseOutcomeNoFlag ==
    /\ Running /\ pc = "dispatch"
    /\ Outcome(success, response_content) \in ReuseOutcomes
    /\ cycle' = cycle + 1
    /\ pc' = "cycle_start"
    /\ UNCHANGED <<ctl, temp_address, temp_private_key, reuse,
                   initial_balance, resp, attempt, tor_changed, pollv, tfv,
                   generated, faucet_asked, chain>>

\* Lines 278-295 and 311-316: keep the address for the next cycle.
OnReuseOutcome ==
    /\ Running /\ pc = "dispatch"
    /\ Outcome(success, response_content) \in ReuseOutcomes
    /\ reuse' = TRUE
    /\ cycle' = cycle + 1
    /\ pc' = "cycle_start"
    /\ UNCHANGED <<ctl, temp_address, temp_private_key, initial_balance,
                   resp, attempt, tor_changed, pollv, tfv, generated,
                   faucet_asked, chain>>

\* Lines 296-298: enter the first check_balance_and_transfer.
OnRateLimited ==
    /\ Running /\ pc = "dispatch"
    /\ Outcome(success, response_content) = "RateLimited"
    /\ pc' = "cb_poll"
    /\ check_pass' = 1
    /\ i' = 0
    /\ UNCHANGED <<ctl, orch, resp, attempt, tor_changed,
                   current_balance, polled, tfv, generated, faucet_asked,
                   chain>>

\* OnRetrySame advancing the cycle counter as the other branches do.
OnRetrySameAdvances ==
    /\ Running /\ pc = "dispatch"
    /\ Outcome(success, response_content) \in RetrySameOutcomes
    /\ cycle' = cycle + 1
    /\ pc' = "request_faucet"
    /\ UNCHANGED <<ctl, temp_address, temp_private_key, reuse,
                   initial_balance, resp, attempt, tor_changed, pollv, tfv,
                   generated, faucet_asked, chain>>

\* Lines 317-328: sleep and ask the faucet again.
OnRetrySame ==
    /\ Running /\ pc = "dispatch"
    /\ Outcome(success, response_content) \in RetrySameOutcomes
    /\ pc' = "request_faucet"
    /\ UNCHANGED <<ctl, orch, resp, attempt, tor_changed, pollv, tfv,
                   generated, faucet_asked, chain>>

\* OnUnknownFailure without line 331: the cycle counter stays.
OnUnknownFailureStays ==
    /\ Running /\ pc = "dispatch"
    /\ Outcome(success, response_content) = "UnknownFailure"
    /\ cycle' = cycle
    /\ pc' = "cycle_start"
    /\ UNCHANGED <<ctl, temp_address, temp_private_key, reuse,
                   initial_balance, resp, attempt, tor_changed, pollv, tfv,
                   generated, faucet_asked, chain>>

\* Lines 329-333.
OnUnknownFailure ==
    /\ Running /\ pc = "dispatch"
    /\ Outcome(success, response_content) = "UnknownFailure"
    /\ cycle' = cycle + 1
    /\ pc' = "cycle_start"
    /\ UNCHANGED <<ctl, temp_address, temp_private_key, reuse,
                   initial_balance, resp, attempt, tor_changed, pollv, tfv,
                   generated, faucet_asked, chain>>

\* What every step of a poller or of transfer_funds leaves alone.
CallFrame ==
    UNCHANGED <<ctl, temp_address, temp_private_key, reuse,
                initial_balance, resp, attempt, tor_changed, generated,
                faucet_asked>>

(***************************************************************************)
(* wait_for_funds_and_transfer, lines 205-234.                             *)
(***************************************************************************)
\* Lines 210-214 and 230-231: one pass of the while loop.
WaitPoll ==
    /\ Running /\ pc = "wf_poll"
    /\ \E b \in GetBalance :
         /\ current_balance' = b
         /\ IF b > initial_balance
            THEN pc' = "transfer"
            ELSE pc' = pc
    /\ polled' = TRUE
    /\ CallFrame
    /\ UNCHANGED <<cycle, check_pass, i, tfv, chain>>

\* Lines 210 and 233-234: the 300 seconds are over.
WaitTimeout ==
    /\ Running /\ pc = "wf_poll" /\ polled
    /\ PollerReturn(FALSE)
    /\ CallFrame
    /\ UNCHANGED chain

(***************************************************************************)
(* check_balance_and_transfer, lines 128-155.                              *)
(***************************************************************************)
\* CheckPoll with range(check_attempts + 1): one read more than asked for.
CheckPollOneMore ==
    /\ Running /\ pc = "cb_poll" /\ i <= check_attempts
    /\ \E b \in GetBalance :
         /\ current_balance' = b
         /\ IF b > initial_balance
            THEN pc' = "transfer" /\ i' = 0
            ELSE pc' = pc /\ i' = i + 1
    /\ CallFrame
    /\ UNCHANGED <<cycle, check_pass, polled, tfv, chain>>

\* CheckPoll with >= where line 137 has >: a balance equal to the baseline
\* counts as funds received.
CheckPollAtBaseline ==
    /\ Running /\ pc = "cb_poll" /\ i < check_attempts
    /\ \E b \in GetBalance :
         /\ current_balance' = b
         /\ IF b >= initial_balance
            THEN pc' = "transfer" /\ i' = 0
            ELSE pc' = pc /\ i' = i + 1
    /\ CallFrame
    /\ UNCHANGED <<cycle, check_pass, polled, tfv, chain>>

\* Lines 132-139: one pass of the for loop.
CheckPoll ==
    /\ Running /\ pc = "cb_poll" /\ i < check_attempts
    /\ \E b \in GetBalance :
         /\ current_balance' = b
         /\ IF b > initial_balance
            THEN pc' = "transfer" /\ i' = 0
            ELSE pc' = pc /\ i' = i + 1
    /\ CallFrame
    /\ UNCHANGED <<cycle, check_pass, polled, tfv, chain>>

\* Lines 141 and 155: the loop ended without funds.
CheckExhausted ==
    /\ Running /\ pc = "cb_poll" /\ i = check_attempts
    /\ PollerReturn(FALSE)
    /\ CallFrame
    /\ UNCHANGED chain

\* Line 301: the baseline of the second check.
Rebaseline ==
    /\ Running /\ pc = "rebaseline"
    /\ \E b \in GetBalance : initial_balance' = b
    /\ check_pass' = 2
    /\ i' = 0
    /\ pc' = "cb_poll"
    /\ UNCHANGED <<ctl, cycle, temp_address, temp_private_key, reuse,
                   resp, attempt, tor_changed, current_balance, polled, tfv,
                   generated, faucet_asked, chain>>

(***************************************************************************)
(* transfer_funds, lines 157-203, and the retry loop around it, lines      *)
(* 143-154 and 217-228.                                                    *)
(***************************************************************************)
\* SendAmount computed from the amount the caller passed in.
SendAmountOfArgument(amount_eth, bal, price) == amount_eth - Fee(price)

\* The amount transfer_funds sends, line 170: amount_eth, the balance the
\* caller observed, is not read; bal is the balance read at line 167.
SendAmount(amount_eth, bal, price) == bal - Fee(price)

\* The test of line 173.
Insufficient(amount) == amount <= 0

\* Lines 160-183: read nonce, gas price and balance, build the transaction;
\* or one of the reads raises (line 201).
TransferRead ==
    /\ Running /\ pc = "transfer"
    /\ \/ /\ gas_price' \in GasPrices
          /\ balance_wei' = chainBal
          /\ send_amount_wei' =
                 SendAmount(current_balance, chainBal, gas_price')
          /\ IF Insufficient(send_amount_wei')
             THEN /\ transaction' = NoTx
                  /\ tf_exit' = "insufficient"
                  /\ pc' = "retry_check"
             ELSE /\ transaction' = [value |-> send_amount_wei',
                                     gasPrice |-> gas_price']
                  /\ tf_exit' = "none"
                  /\ pc' = "tf_send"
       \/ /\ gas_price' = 0
          /\ balance_wei' = 0
          /\ send_amount_wei' = 0
          /\ transaction' = NoTx
          /\ tf_exit' = "read_error"
          /\ pc' = "retry_check"
    /\ CallFrame
    /\ UNCHANGED <<cycle, pollv, chain>>

\* Lines 185-186: sign and broadcast.  The node takes the transaction if the
\* address can pay for it, and it replaces one waiting with the same nonce;
\* or the call raises.
TransferSend ==
    /\ Running /\ pc = "tf_send"
    /\ \/ /\ chainBal >= transaction.value + Fee(transaction.gasPrice)
          /\ pendingTx' = transaction
          /\ tf_exit' = tf_exit
          /\ pc' = "tf_wait"
       \/ /\ pendingTx' = pendingTx
          /\ tf_exit' = "send_error"
          /\ pc' = "retry_check"
    /\ CallFrame
    /\ UNCHANGED <<cycle, pollv, gas_price, balance_wei, send_amount_wei,
                   transaction, chainBal, deposits>>

\* Lines 192-203: the receipt (status 1 or 0), or no receipt within 120
\* seconds, or the call raises.
TransferWait ==
    /\ Running /\ pc = "tf_wait"
    /\ \/ /\ chainBal' = chainBal - pendingTx.value - Fee(pendingTx.gasPrice)
          /\ pendingTx' = NoTx
          /\ PollerReturn(TRUE)
       \/ /\ chainBal' = chainBal - Fee(pendingTx.gasPrice)
          /\ pendingTx' = NoTx
          /\ tf_exit' = "receipt_failed"
          /\ pc' = "retry_check"
          /\ UNCHANGED <<cycle, pollv, gas_price, balance_wei,
                         send_amount_wei, transaction>>
       \/ /\ tf_exit' = "wait_error"
          /\ pc' = "retry_check"
          /\ UNCHANGED <<cycle, pollv, gas_price, balance_wei,
                         send_amount_wei, transaction, chainBal, pendingTx>>
    /\ CallFrame
    /\ UNCHANGED deposits

\* RetryCheck with < where lines 152 and 226 have <=.
RetryCheckStrict ==
    /\ Running /\ pc = "retry_check"
    /\ \E b \in GetBalance :
         IF b < initial_balance
         THEN PollerReturn(FALSE)
         ELSE /\ pc' = "transfer"
              /\ UNCHANGED <<cycle, pollv, tfv>>
    /\ CallFrame
    /\ UNCHANGED chain

\* RetryCheck with break where line 228 has return False: the retry loop of
\* wait_for_funds_and_transfer falls back into the polling loop.
RetryCheckBreaks ==
    /\ Running /\ pc = "retry_check"
    /\ \E b \in GetBalance :
         IF b <= initial_balance
         THEN IF check_pass = 0
              THEN /\ ResetLocals
                   /\ check_pass' = 0 /\ cycle' = cycle /\ pc' = "wf_poll"
              ELSE PollerReturn(FALSE)
         ELSE /\ pc' = "transfer"
              /\ UNCHANGED <<cycle, pollv, tfv>>
    /\ CallFrame
    /\ UNCHANGED chain

\* Lines 150-154 and 224-228: after a failed transfer, read the balance and
\* either give up or go round the while True loop again.
RetryCheck ==
    /\ Running /\ pc = "retry_check"
    /\ \E b \in GetBalance :
         IF b <= initial_balance
         THEN PollerReturn(FALSE)
         ELSE /\ pc' = "transfer"
              /\ UNCHANGED <<cycle, pollv, tfv>>
    /\ CallFrame
    /\ UNCHANGED chain

(***************************************************************************)
(* The environment.                                                        *)
(***************************************************************************)
\* Lines 337-339: Ctrl-C.  KeyboardInterrupt is not an Exception, so no
\* handler below run_bot stops it; raised inside the handler of line 340 it
\* leaves run_bot uncaught.  pc stays where the interrupt found the program;
\* the locals end with run_bot.
Interrupt ==
    /\ Running
    /\ interrupted' = TRUE
    /\ run_state' = IF pc = "handler" THEN "crashed" ELSE "stopped"
    /\ cycle' = cycle
    /\ temp_address' = None
    /\ temp_private_key' = None
    /\ reuse' = FALSE
    /\ initial_balance' = 0
    /\ success' = FALSE
    /\ response_content' = {}
    /\ attempt' = 0
    /\ tor_changed' = FALSE
    /\ check_pass' = 0
    /\ ResetLocals
    /\ UNCHANGED <<pc, generated, faucet_asked, chain>>

\* Funds arrive at temp_address, which only the faucet has been told.
Deposit ==
    /\ Running /\ faucet_asked /\ deposits < MaxDeposits
    /\ \E d \in Drips : chainBal' = chainBal + d
    /\ deposits' = deposits + 1
    /\ UNCHANGED <<pc, ctl, orch, resp, attempt, tor_changed, pollv,
                   tfv, generated, faucet_asked, pendingTx>>

\* A sweep whose confirmation wait ended without a receipt is mined.
MinePending ==
    /\ Running /\ pc # "tf_wait" /\ pendingTx # NoTx
    /\ chainBal >= pendingTx.value + Fee(pendingTx.gasPrice)
    /\ chainBal' = chainBal - pendingTx.value - Fee(pendingTx.gasPrice)
    /\ pendingTx' = NoTx
    /\ UNCHANGED <<pc, ctl, orch, resp, attempt, tor_changed, pollv,
                   tfv, generated, faucet_asked, deposits>>

Next ==
    \/ StartCycle
    \/ GenerateRaises
    \/ HandleException
    \/ ReadInitialBalance
    \/ ChangeTorIdentity
    \/ PostFaucet
    \/ OnSuccess
    \/ OnReuseOutcome
    \/ OnRateLimited
    \/ OnRetrySame
    \/ OnUnknownFailure
    \/ WaitPoll
    \/ WaitTimeout
    \/ CheckPoll
    \/ CheckExhausted
    \/ Rebaseline
    \/ TransferRead
    \/ TransferSend
    \/ TransferWait
    \/ RetryCheck
    \/ Interrupt
    \/ Deposit
    \/ MinePending

Spec == Init /\ [][Next]_vars

(***************************************************************************)
(* Properties.                                                             *)
(***************************************************************************)
\* The outcome of the last faucet request.
LastOutcome == Outcome(success, response_content)

\* The positions inside a poller call, transfer_funds included.
WaitPcs == {"wf_poll", "transfer", "tf_send", "tf_wait", "retry_check"}
CheckPcs == {"cb_poll", "transfer", "tf_send", "tf_wait", "retry_check",
             "rebaseline"}

\* C1: the step that opens a cycle after a cycle that ended with outcome
\* MaxRetriesExceeded, TransactionReplaced, ReplacementUnderpriced or
\* TemporarilyForbidden keeps the address and the private key; after a cycle
\* that ended with Success or UnknownFailure it takes a newly generated
\* account whose address differs from the previous one.
C1_ReuseInvariant ==
    [][(pc = "cycle_start" /\ pc' = "read_initial" /\ cycle > 1) =>
        /\ LastOutcome \in ReuseOutcomes =>
              /\ temp_address' = temp_address
              /\ temp_private_key' = temp_private_key
              /\ generated' = generated
        /\ LastOutcome \in {"Success", "UnknownFailure"} =>
              /\ temp_address' # temp_address
              /\ generated' = generated + 1
              /\ temp_private_key' = KeyOf(generated')]_vars

\* A second cycle running on the account of the first, after a reuse outcome.
C1_Witness ==
    /\ Running /\ pc = "read_initial" /\ cycle = 2
    /\ LastOutcome \in ReuseOutcomes
    /\ generated = 1
    /\ temp_address = AddressOf(KeyOf(1))

\* C2: on AccessRestricted, Timeout or ConnectionReset the next step of
\* run_bot is another faucet request, and it leaves the cycle counter, the
\* initial balance, the reuse flag and the account as they were; no account
\* is generated.
C2_RetrySameFrame ==
    [][(pc = "dispatch" /\ LastOutcome \in RetrySameOutcomes /\ pc' # pc) =>
        /\ pc' = "request_faucet"
        /\ attempt' = 0
        /\ UNCHANGED <<cycle, initial_balance, reuse, temp_address,
                       temp_private_key, generated>>]_vars

\* The faucet is being asked again in cycle 1 after a retry-same outcome.
C2_Witness ==
    /\ Running /\ pc = "request_faucet" /\ cycle = 1
    /\ LastOutcome \in RetrySameOutcomes

\* C3: after a 200 answer, wait_for_funds_and_transfer returning True (left
\* from the confirmation wait) advances the cycle counter by one with reuse
\* false; returning False (the timeout of the polling loop, or the retry loop
\* given up) leads to another faucet request for the same account in the
\* same cycle, whatever the number of earlier attempts.
C3_SuccessBranch ==
    [][(LastOutcome = "Success" /\ pc \in WaitPcs /\ pc' \notin WaitPcs) =>
        IF pc = "tf_wait"
        THEN /\ pc' = "cycle_start"
             /\ cycle' = cycle + 1
             /\ ~reuse'
        ELSE /\ pc \in {"wf_poll", "retry_check"}
             /\ pc' = "request_faucet"
             /\ UNCHANGED <<cycle, temp_address, temp_private_key, reuse,
                            generated>>]_vars

\* The faucet is asked again in cycle 1 after a 200 answer: the poll-and-
\* sweep that followed it failed.
C3_Witness ==
    /\ Running /\ pc = "request_faucet" /\ cycle = 1
    /\ LastOutcome = "Success"

\* C4 as stated: the RATE_LIMIT branch always ends after two runs of
\* check_balance_and_transfer, with the cycle counter advanced and reuse
\* false.
C4_TwoPassesAlways ==
    [][(LastOutcome = "RateLimited" /\ pc \in CheckPcs
        /\ pc' = "cycle_start") =>
        /\ check_pass = 2
        /\ cycle' = cycle + 1
        /\ ~reuse']_vars

\* C4, amended: on RateLimited, check_balance_and_transfer runs once and a
\* sweep is attempted only after a read above the baseline; only when that
\* first run returns True (funds seen and swept) is the balance read again
\* as the new baseline and a second run made; the branch never asks the
\* faucet again, and however it ends, the cycle counter advances by one with
\* reuse false.
C4_RateLimitedBranch ==
    [][(LastOutcome = "RateLimited" /\ pc \in CheckPcs \cup {"dispatch"}
        /\ pc' # pc) =>
        /\ pc' \in CheckPcs \cup {"cycle_start"}
        /\ pc = "dispatch" =>
              /\ pc' = "cb_poll" /\ check_pass' = 1 /\ i' = 0
              /\ UNCHANGED <<cycle, initial_balance>>
        /\ pc = "cb_poll" =>
              \/ pc' = "transfer" /\ current_balance' > initial_balance
              \/ pc' = "cycle_start" /\ i = check_attempts
        /\ pc' = "rebaseline" =>
              /\ pc = "tf_wait" /\ check_pass = 1
              /\ cycle' = cycle
        /\ pc = "rebaseline" =>
              /\ pc' = "cb_poll" /\ check_pass' = 2 /\ i' = 0
              /\ initial_balance' \in GetBalance
              /\ cycle' = cycle
        /\ pc' = "cycle_start" =>
              /\ cycle' = cycle + 1
              /\ ~reuse'
              /\ check_pass = 2 \/ pc \in {"cb_poll", "retry_check"}]_vars

\* The second run of check_balance_and_transfer has made all its reads.
C4_Witness ==
    /\ Running /\ LastOutcome = "RateLimited"
    /\ pc = "cb_poll" /\ check_pass = 2 /\ i = check_attempts

\* The body has RATE_LIMIT in it and none of the markers run_bot tests first.
RateLimitFirst(c) ==
    /\ "RATE_LIMIT" \in c
    /\ c \cap {"MAX_RETRIES_EXCEEDED", "TRANSACTION_REPLACED",
               "REPLACEMENT_UNDERPRICED"} = {}

\* C5 as stated: after a non-200 answer whose body contains RATE_LIMIT, with
\* no read above the baseline, the cycle ends with the counter advanced by
\* one, reuse false and no sweep transaction built.
C5_RateLimitBodyAdvances ==
    [][(~success /\ "RATE_LIMIT" \in response_content
        /\ (pc = "dispatch" \/ (pc = "cb_poll" /\ check_pass = 1))
        /\ pc' = "cycle_start") =>
        /\ cycle' = cycle + 1
        /\ ~reuse'
        /\ transaction = NoTx /\ tf_exit = "none"]_vars

\* C5, amended: after a non-200 answer whose body contains RATE_LIMIT and
\* none of MAX_RETRIES_EXCEEDED, TRANSACTION_REPLACED, REPLACEMENT_UNDERPRICED,
\* with no read of the bounded-count polling above the baseline, the cycle
\* ends after check_attempts reads with the counter advanced by one and
\* reuse false, no sweep transaction has been built, signed or broadcast
\* since that answer, and the next cycle generates a new account.
C5_RateLimitNoFunds ==
    [][(~success /\ RateLimitFirst(response_content) /\ pc' # pc) =>
        /\ pc = "dispatch" => pc' = "cb_poll" /\ check_pass' = 1
        /\ (pc = "cb_poll" /\ check_pass = 1 /\ pc' # "transfer") =>
              /\ pc' = "cycle_start"
              /\ cycle' = cycle + 1
              /\ ~reuse'
              /\ i = check_attempts
              /\ transaction = NoTx /\ tf_exit = "none"
              /\ pendingTx' = pendingTx
        /\ (pc = "cycle_start" /\ pc' = "read_initial") =>
              /\ temp_address' # temp_address
              /\ generated' = generated + 1]_vars

\* Cycle 1 has ended on such an answer for an address that never held funds.
C5_Witness ==
    /\ Running /\ pc = "cycle_start" /\ cycle = 2
    /\ ~success /\ RateLimitFirst(response_content)
    /\ ~reuse /\ deposits = 0 /\ pendingTx = NoTx

\* C6: run_bot stops running only when the operator has interrupted it; an
\* exception that reaches line 340 is followed by a new iteration of the
\* loop in the same cycle, and reaching the handler does not stop the loop.
C6_OnlyInterruptStops ==
    [][/\ ~Running' => interrupted'
       /\ (pc = "handler" /\ pc' # pc) =>
             /\ pc' = "cycle_start" /\ Running' /\ cycle' = cycle
       /\ (pc' = "handler" /\ pc # pc') => Running']_vars

\* An exception has been caught at line 340 in the second cycle.
C6_Witness == Running /\ pc = "handler" /\ cycle = 2

\* C7 as stated: when the operator's interrupt has stopped run_bot, no sweep
\* is left broadcast with its confirmation wait cut short.
C7_NoUnresolvedSweepAtStop ==
    ~Running => ~(pc = "tf_wait" /\ pendingTx # NoTx)

\* transfer_funds has got as far as line 170 in its last call.
AmountComputed ==
    /\ Running
    /\ \/ pc \in {"tf_send", "tf_wait"}
       \/ tf_exit \in {"insufficient", "send_error", "receipt_failed",
                       "wait_error"}

\* C8 as stated, with B the balance passed in by the caller (current_balance)
\* and F = 21000 * gas_price: B > F gives one transaction of value B - F > 0;
\* B <= F gives a failure with nothing signed.
C8_AmountFromObservedBalance ==
    AmountComputed =>
        IF current_balance > Fee(gas_price)
        THEN /\ transaction # NoTx
             /\ transaction.value = current_balance - Fee(gas_price)
             /\ transaction.value > 0
        ELSE /\ transaction = NoTx
             /\ pc \notin {"tf_send", "tf_wait"}

\* C8, amended: with W the balance transfer_funds itself reads (line 167) and
\* F = 21000 * the gas price it reads, W > F gives one transaction, of value
\* W - F > 0, and that one is what gets broadcast; W <= F gives a failure at
\* line 175 with nothing signed or broadcast.
C8_AmountFromOwnRead ==
    AmountComputed =>
        IF balance_wei > Fee(gas_price)
        THEN /\ transaction = [value |-> balance_wei - Fee(gas_price),
                               gasPrice |-> gas_price]
             /\ transaction.value > 0
             /\ send_amount_wei = transaction.value
             /\ pc = "tf_wait" => pendingTx = transaction
        ELSE /\ transaction = NoTx
             /\ tf_exit = "insufficient"
             /\ pc \notin {"tf_send", "tf_wait"}

\* A sweep of W - F > 0 is broadcast and waiting for its receipt.
C8_Witness ==
    /\ Running /\ pc = "tf_wait"
    /\ balance_wei > Fee(gas_price)
    /\ pendingTx.value = balance_wei - Fee(gas_price)

\* C9: the step after a failed transfer either calls transfer_funds again,
\* and then the balance exceeds the baseline, or ends the poller call with
\* failure (wait_for_funds_and_transfer: back to the faucet request in the
\* same cycle; check_balance_and_transfer: on to the next cycle, no second
\* pass), with no further transfer attempt in that call.
C9_RetryOnlyAboveBaseline ==
    [][(pc = "retry_check" /\ pc' # pc) =>
        \/ /\ pc' = "transfer"
           /\ chainBal > initial_balance
           /\ UNCHANGED <<initial_balance, check_pass, cycle>>
        \/ /\ pc' = IF check_pass = 0 THEN "request_faucet"
                                      ELSE "cycle_start"
           /\ cycle' = IF check_pass = 0 THEN cycle ELSE cycle + 1
           /\ tf_exit' = "none" /\ transaction' = NoTx]_vars

\* transfer_funds is called again after a failed attempt.
C9_Witness ==
    /\ Running /\ pc = "transfer" /\ tf_exit # "none"
    /\ chainBal > initial_balance

\* C10 as stated: after an attempt that failed for an amount <= 0,
\* transfer_funds is not run again on the same balance and gas price.
C10_InsufficientNotRetried ==
    [][~(/\ pc = "transfer" /\ tf_exit = "insufficient"
         /\ chainBal = balance_wei
         /\ gas_price' = gas_price /\ balance_wei' = balance_wei
         /\ tf_exit' = "insufficient" /\ pc' = "retry_check")]_vars

(***************************************************************************)
(* C11 - C20.                                                              *)
(***************************************************************************)
\* The cycle in progress kept the account of the cycle before it: that cycle
\* ended with a reuse outcome, and no faucet answer has replaced it yet.
ReusedCycle == cycle > 1 /\ LastOutcome \in ReuseOutcomes

\* C11 as stated: a cycle that starts with reuse keeps the initial_balance
\* recorded in the cycle before it; the start of that cycle does not replace
\* it by a new read.
C11_ReuseKeepsBaseline ==
    [][(ReusedCycle /\ pc \in {"cycle_start", "read_initial"}
        /\ pc' \in {"read_initial", "request_faucet"}) =>
        initial_balance' = initial_balance]_vars

\* C11, amended: every cycle, with a new account or a kept one, passes
\* through the read of line 262 before its first faucet request; choosing
\* the account leaves initial_balance alone, and the read sets
\* initial_balance to what get_balance returns for the cycle's account (the
\* balance on chain, or 0 when the read fails), whatever it was before.
C11_BaselineReadEveryCycle ==
    [][/\ (pc = "cycle_start" /\ pc' # pc /\ Running') =>
              /\ pc' \in {"read_initial", "handler"}
              /\ initial_balance' = initial_balance
       /\ (pc = "read_initial" /\ pc' # pc) =>
              /\ pc' = "request_faucet"
              /\ initial_balance' \in GetBalance
              /\ UNCHANGED <<temp_address, temp_private_key, cycle>>
       /\ (pc' = "request_faucet" /\ pc \in {"cycle_start", "handler"}) =>
              FALSE]_vars

\* A kept account has been read again at the start of its second cycle, and
\* the baseline is the balance that arrived during the first one.
C11_Witness ==
    /\ Running /\ pc = "request_faucet" /\ ReusedCycle /\ generated = 1
    /\ initial_balance = chainBal /\ initial_balance > 0

\* The labels of one sweep sequence: transfer_funds and the balance check
\* that follows a failed attempt.
SweepPcs == {"transfer", "tf_send", "tf_wait", "retry_check"}

\* C12: check_balance_and_transfer makes at most check_attempts (10) reads
\* of the balance, i counting the reads made so far, all of them at or below
\* initial_balance and none followed by a sweep.  A read at or below
\* initial_balance is followed by the next read; after exactly
\* check_attempts such reads the call returns False without any sweep
\* attempt, and only then; the first read above initial_balance ends the
\* polling, and the call never polls again after it.
C12_BoundedCountPolling ==
    /\ [](Running /\ pc = "cb_poll" =>
             /\ i \in 0 .. check_attempts
             /\ current_balance <= initial_balance
             /\ tf_exit = "none" /\ transaction = NoTx)
    /\ [][/\ (pc = "cb_poll" /\ pc' = pc /\ Running' /\ i' # i) =>
                 /\ i < check_attempts
                 /\ i' = i + 1
                 /\ current_balance' <= initial_balance
          /\ (pc = "cb_poll" /\ pc' # pc) =>
                 \/ /\ pc' = "transfer"
                    /\ i < check_attempts
                    /\ current_balance' > initial_balance
                 \/ /\ pc' = "cycle_start"
                    /\ i = check_attempts
                    /\ cycle' = cycle + 1
                    /\ UNCHANGED <<chainBal, pendingTx>>
          /\ (pc \in SweepPcs /\ pc' = "cb_poll") => FALSE]_vars

\* The first run of check_balance_and_transfer has made its ten reads, none
\* above the baseline.
C12_Witness ==
    /\ Running /\ pc = "cb_poll" /\ check_pass = 1
    /\ LastOutcome = "RateLimited"
    /\ i = check_attempts

\* C13: wait_for_funds_and_transfer stays in its polling loop only while no
\* read has been above initial_balance and no sweep has been started; the
\* first read above initial_balance enters the retry loop of the sweep, once,
\* and that loop is left only by returning from the call, True after a
\* confirmed sweep (the cycle advances) or False after a failed attempt
\* followed by a read at or below initial_balance (the faucet is asked
\* again); control never goes back to the polling loop.
C13_OneSweepSequence ==
    /\ [](Running /\ pc = "wf_poll" =>
             /\ current_balance <= initial_balance
             /\ tf_exit = "none" /\ transaction = NoTx)
    /\ [][/\ (pc = "wf_poll" /\ pc' # pc) =>
                 \/ pc' = "transfer" /\ current_balance' > initial_balance
                 \/ pc' = "request_faucet" /\ cycle' = cycle
          /\ (pc \in SweepPcs /\ check_pass = 0 /\ pc' \notin SweepPcs) =>
                 \/ pc = "tf_wait" /\ pc' = "cycle_start"
                 \/ pc = "retry_check" /\ pc' = "request_faucet"
          /\ (pc \in SweepPcs /\ pc' = "wf_poll") => FALSE]_vars

\* After a 200 answer the polling loop has seen funds, an attempt of the
\* sweep has failed, and the retry loop is about to read the balance.
C13_Witness ==
    /\ Running /\ pc = "retry_check" /\ LastOutcome = "Success"
    /\ check_pass = 0 /\ current_balance > initial_balance
    /\ tf_exit # "none"

\* What the step from the if/elif chain of run_bot does, by kind: keep the
\* account and advance, advance with a new account, poll for funds, or ask
\* the faucet again in the same cycle.
Taken(kind) ==
    CASE kind = "reuse" ->
             pc' = "cycle_start" /\ cycle' = cycle + 1 /\ reuse'
      [] kind = "advance" ->
             pc' = "cycle_start" /\ cycle' = cycle + 1 /\ ~reuse'
      [] kind = "poll" ->
             pc' = "cb_poll" /\ cycle' = cycle /\ ~reuse'
      [] kind = "retry" ->
             pc' = "request_faucet" /\ cycle' = cycle /\ ~reuse'

\* C14 as stated: after a failed attempt whose body holds only markers of
\* the claim's list, the action taken is the one of a marker the body
\* contains (reuse for Max retries exceeded with url, TRANSACTION_REPLACED,
\* REPLACEMENT_UNDERPRICED and Temporarily forbidden, the poller for
\* RATE_LIMIT, the same request again for ACCESS_RESTRICTED), and for a body
\* with none of them it is the one of UnknownFailure.
C14_KnownMarkerActions ==
    [][LET listed == {"RATE_LIMIT", "Max retries exceeded with url",
                      "TRANSACTION_REPLACED", "REPLACEMENT_UNDERPRICED",
                      "ACCESS_RESTRICTED",
                      "Temporarily forbidden due to suspicious requests"}
           kindOf(m) == IF m = "RATE_LIMIT" THEN "poll"
                        ELSE IF m = "ACCESS_RESTRICTED" THEN "retry"
                        ELSE "reuse"
       IN  (pc = "dispatch" /\ pc' # pc /\ ~success
            /\ response_content \subseteq listed) =>
               IF response_content = {}
               THEN Taken("advance")
               ELSE \E m \in response_content : Taken(kindOf(m))]_vars

\* C14, amended: after a failed attempt the bytes returned by
\* request_faucet_funds are put to eight tests in the order of lines 278-325
\* and the action of the first test that matches is taken: reuse for
\* MAX_RETRIES_EXCEEDED, TRANSACTION_REPLACED and REPLACEMENT_UNDERPRICED,
\* the poller for RATE_LIMIT, reuse for Temporarily forbidden, the same
\* request again for ACCESS_RESTRICTED, TIMEOUT and CONNECTION_RESET; bytes
\* that match no test, a body with Max retries exceeded with url among them,
\* get the action of UnknownFailure.  One action is taken per attempt.
C14_FirstMatchingTest ==
    [][LET tests == <<"MAX_RETRIES_EXCEEDED", "TRANSACTION_REPLACED",
                      "REPLACEMENT_UNDERPRICED", "RATE_LIMIT",
                      "Temporarily forbidden due to suspicious requests",
                      "ACCESS_RESTRICTED", "TIMEOUT", "CONNECTION_RESET">>
           kinds == <<"reuse", "reuse", "reuse", "poll", "reuse",
                      "retry", "retry", "retry">>
           hits  == {k \in 1 .. Len(tests) : tests[k] \in response_content}
           first == CHOOSE k \in hits : \A j \in hits : k <= j
           all   == {"reuse", "advance", "poll", "retry"}
       IN  (pc = "dispatch" /\ pc' # pc /\ ~success) =>
               /\ IF hits = {} THEN Taken("advance")
                               ELSE Taken(kinds[first])
               /\ Cardinality({a \in all : Taken(a)}) = 1]_vars

\* A non-200 body whose only marker is Max retries exceeded with url has
\* been answered by advancing to a new account.
C14_Witness ==
    /\ Running /\ pc = "cycle_start" /\ cycle = 2 /\ ~reuse
    /\ ~success
    /\ response_content = {"Max retries exceeded with url"}

\* C15: a call of request_faucet_funds runs change_tor_identity to its end
\* first, then posts the request, whether the identity was changed or not,
\* and returns to run_bot with the result of that one request: the post is
\* reached only from the rotator, the rotator leads only to the post, and the
\* post leads only to the if/elif chain of run_bot, which is reached only
\* from it.
C15_RotateThenPostOnce ==
    [][/\ (pc = "request_faucet" /\ pc' # pc) =>
              pc' = "post" /\ UNCHANGED <<resp, faucet_asked>>
       /\ (pc' = "post" /\ pc # pc') => pc = "request_faucet"
       /\ (pc = "post" /\ pc' # pc) => pc' = "dispatch"
       /\ (pc' = "dispatch" /\ pc # pc') => pc = "post"
       /\ (pc # "post" /\ Running') => UNCHANGED resp]_vars

\* The request is about to be posted after a rotation that failed three
\* times.
C15_Witness ==
    /\ Running /\ pc = "post" /\ ~tor_changed

\* C16 as stated: a balance check of the sweep retry loop (lines 152, 226)
\* made while the balance on chain is above initial_balance does not end the
\* loop: the sweep is tried again.
C16_FailedRecheckKeepsLoop ==
    [][(pc = "retry_check" /\ chainBal > initial_balance /\ pc' # pc) =>
        pc' = "transfer"]_vars

\* C17: cycle is 1 at the start and every step leaves it alone or adds one.
\* It is increased, by one, by exactly these steps: the confirmed sweep that
\* follows a 200 answer, the end of the RATE_LIMIT branch, and the branches
\* of the reuse outcomes and of UnknownFailure.  The branches that ask the
\* faucet again, the entry into a poller, a poll-and-sweep that fails after
\* a 200 answer, and the handler of line 340 leave it unchanged.
C17_CycleCounter ==
    /\ cycle = 1
    /\ [][LET advancing ==
                 \/ /\ pc = "dispatch" /\ pc' # pc
                    /\ LastOutcome \in ReuseOutcomes \cup {"UnknownFailure"}
                 \/ /\ LastOutcome = "Success"
                    /\ pc = "tf_wait" /\ pc' = "cycle_start"
                 \/ /\ LastOutcome = "RateLimited"
                    /\ pc \in CheckPcs /\ pc' = "cycle_start"
          IN  /\ cycle' \in {cycle, cycle + 1}
              /\ cycle' = cycle + 1 <=> advancing
              /\ (pc = "dispatch" /\ pc' # pc
                  /\ LastOutcome \in RetrySameOutcomes) =>
                     pc' = "request_faucet" /\ cycle' = cycle
              /\ (LastOutcome = "Success" /\ pc \in {"wf_poll", "retry_check"}
                  /\ pc' \notin WaitPcs) =>
                     pc' = "request_faucet" /\ cycle' = cycle
              /\ (pc = "handler" /\ pc' # pc) =>
                     pc' = "cycle_start" /\ cycle' = cycle]_vars

\* Two cycles have ended by advancing.
C17_Witness ==
    /\ Running /\ pc = "cycle_start" /\ cycle = 3

\* C18: in change_tor_identity, attempt counts the failed attempts made so
\* far and stays below max_attempts (3).  An attempt that succeeds ends the
\* call with True, whatever its number; one that fails is followed by the
\* next attempt when fewer than three have been made, and otherwise ends the
\* call with False; either way the call ends in the post of the request and
\* never in the handler of run_bot.
C18_RotatorAttempts ==
    /\ [](Running =>
             /\ attempt \in 0 .. max_attempts - 1
             /\ attempt > 0 => pc = "request_faucet"
             /\ tor_changed => pc = "post")
    /\ [][/\ (pc = "request_faucet" /\ pc' = pc /\ Running'
              /\ attempt' # attempt) =>
                 /\ attempt' = attempt + 1
                 /\ attempt' < max_attempts
                 /\ ~tor_changed'
          /\ (pc = "request_faucet" /\ pc' # pc) =>
                 /\ pc' = "post"
                 /\ attempt' = 0
                 /\ tor_changed' \/ attempt = max_attempts - 1]_vars

\* Two attempts have failed and the third, the last, is about to be made.
C18_Witness ==
    /\ Running /\ pc = "request_faucet" /\ attempt = max_attempts - 1

\* C19: reuse is set only between the end of one cycle and the start of the
\* next, so it is false whenever the faucet is being asked.  It is set only
\* by the branch of a reuse outcome, which ends the cycle, and cleared only
\* by the step that opens the next cycle, which keeps the account.
C19_ReuseFlagWindow ==
    /\ [](Running /\ reuse => pc = "cycle_start")
    /\ [][/\ (~reuse /\ reuse') =>
                 /\ pc = "dispatch" /\ pc' = "cycle_start"
                 /\ LastOutcome \in ReuseOutcomes
                 /\ cycle' = cycle + 1
          /\ (reuse /\ ~reuse' /\ Running') =>
                 /\ pc = "cycle_start" /\ pc' = "read_initial"
                 /\ UNCHANGED <<temp_address, temp_private_key, generated,
                                cycle>>]_vars

\* The faucet is about to be asked for an account kept from the cycle
\* before, the flag cleared.
C19_Witness ==
    /\ Running /\ pc = "post" /\ ~reuse
    /\ ReusedCycle /\ generated = 1

\* C20: while transfer_funds or the check between two of its attempts is
\* running, the read that ended the polling of the same poller call was
\* above initial_balance, and the last answer of the faucet was a 200 or a
\* RATE_LIMIT.  A sweep sequence is entered only from a polling loop, by a
\* read above initial_balance, and a transaction is broadcast only inside
\* one; initial_balance does not change while it runs.
C20_SweepOnlyAfterFunds ==
    /\ [](Running /\ pc \in SweepPcs =>
             /\ current_balance > initial_balance
             /\ LastOutcome \in {"Success", "RateLimited"}
             /\ LastOutcome = "Success" <=> check_pass = 0)
    /\ [][/\ (pc' \in SweepPcs /\ pc \notin SweepPcs) =>
                 /\ pc \in {"wf_poll", "cb_poll"} /\ pc' = "transfer"
                 /\ current_balance' > initial_balance
          /\ (pendingTx' # pendingTx /\ pendingTx' # NoTx) =>
                 pc = "tf_send" /\ pc' = "tf_wait"
          /\ (pc \in SweepPcs /\ pc' \in SweepPcs /\ Running') =>
                 UNCHANGED <<initial_balance, resp>>]_vars

\* After a RATE_LIMIT answer a read above the baseline has been made and the
\* transfer built on it is about to be sent.
C20_Witness ==
    /\ Running /\ pc = "tf_send" /\ LastOutcome = "RateLimited"
    /\ current_balance > initial_balance
    /\ transaction # NoTx

====
